---- MODULE Spec2Model ----
(***************************************************************************)
(* Addon manifests of stremio-core (src/types/addons/manifest.rs): the     *)
(* data model, the request matcher Manifest::is_supported with             *)
(* ManifestCatalog::is_extra_supported, and the serde encoding/decoding of *)
(* a manifest.  A Rust String is a sequence of one-character strings, so   *)
(* that str::starts_with and the semver text of a version are computed.    *)
(***************************************************************************)
EXTENDS Integers, Sequences, FiniteSets, TLC

VARIABLES pc, manifest, request, catalog, supported, locals, wire, decoded

vars == <<pc, manifest, request, catalog, supported, locals, wire, decoded>>

\* ------------------------------------------------------------------ bounds
MaxResources == 2
MaxCatalogs == 2
MaxExtra == 2
MaxProps == 2

\* ----------------------------------------------------------------- strings
S_catalog == <<"c", "a", "t", "a", "l", "o", "g">>
S_meta == <<"m", "e", "t", "a">>
S_stream == <<"s", "t", "r", "e", "a", "m">>
S_movie == <<"m", "o", "v", "i", "e">>
S_series == <<"s", "e", "r", "i", "e", "s">>
S_tt == <<"t", "t">>
S_kp == <<"k", "p">>
S_tt1 == <<"t", "t", "1">>
S_kp2 == <<"k", "p", "2">>
S_top == <<"t", "o", "p">>
S_new == <<"n", "e", "w">>
S_genre == <<"g", "e", "n", "r", "e">>
S_year == <<"y", "e", "a", "r">>
S_other == <<"o", "t", "h", "e", "r">>
S_x == <<"x">>
S_y == <<"y">>
S_id == <<"i", "d">>
S_name == <<"n", "a", "m", "e">>
S_empty == <<>>

Range(s) == {s[i] : i \in DOMAIN s}

SeqsUpTo(S, n) == UNION {[1..k -> S] : k \in 0..n}

\* Option<T>
None == [some |-> FALSE]

Some(v) == [some |-> TRUE, val |-> v]

\* str::starts_with
starts_with(s, pref) ==
    /\ Len(pref) <= Len(s)
    /\ SubSeq(s, 1, Len(pref)) = pref

\* -------------------------------------------------------------- data model
ManifestResource(name, types, id_prefixes) ==
    [name |-> name, types |-> types, id_prefixes |-> id_prefixes]

ManifestExtraProp(name, is_required, values) ==
    [name |-> name, is_required |-> is_required, values |-> values]

Full(props) == [variant |-> "Full", props |-> props]

Simple(required, supported_keys) ==
    [variant |-> "Simple", required |-> required, supported |-> supported_keys]

ManifestCatalog(type_name, id, name, extra) ==
    [type_name |-> type_name, id |-> id, name |-> name, extra |-> extra]

\* a u64 as three groups of nine decimal digits, the most significant first
u64(n) == <<0, n \div 1000000000, n % 1000000000>>

\* Version::new: no pre-release, no build metadata
Version(major, minor, patch) ==
    [major |-> u64(major), minor |-> u64(minor), patch |-> u64(patch),
     pre |-> <<>>, build |-> <<>>]

Manifest(id, version, name, description, logo, background, resources, types, id_prefixes, catalogs) ==
    [id |-> id, version |-> version, name |-> name, description |-> description,
     logo |-> logo, background |-> background, resources |-> resources,
     types |-> types, id_prefixes |-> id_prefixes, catalogs |-> catalogs]

ResourceRef(resource, type_name, id, extra) ==
    [resource |-> resource, type_name |-> type_name, id |-> id, extra |-> extra]

\* ---------------------------------------- ManifestCatalog::is_extra_supported
\* extra.iter().all(|(k, _)| props.iter().any(|e| k == &e.name))
full_all_supported(props, extra) ==
    \A i \in DOMAIN extra : \E j \in DOMAIN props : extra[i][1] = props[j].name

\* slip: the is_required filter is dropped, every declared prop is demanded
full_requirements_unfiltered(props, extra) ==
    \A j \in DOMAIN props : \E i \in DOMAIN extra : extra[i][1] = props[j].name

\* props.iter().filter(|e| e.is_required).all(|e| extra.iter().any(..))
full_requirements_satisfied(props, extra) ==
    \A j \in DOMAIN props :
        props[j].is_required => \E i \in DOMAIN extra : extra[i][1] = props[j].name

\* extra.iter().all(|(k, _)| supported.contains(k))
simple_all_supported(supported_keys, extra) ==
    \A i \in DOMAIN extra : \E j \in DOMAIN supported_keys : supported_keys[j] = extra[i][1]

\* slip: nothing is demanded of the request
simple_requirements_ignored(required, extra) == TRUE

\* required.iter().all(|kr| extra.iter().any(|(k, _)| kr == k))
simple_requirements_satisfied(required, extra) ==
    \A j \in DOMAIN required : \E i \in DOMAIN extra : required[j] = extra[i][1]

is_extra_supported(c, extra) ==
    IF c.extra.variant = "Full"
    THEN /\ full_all_supported(c.extra.props, extra)
         /\ full_requirements_satisfied(c.extra.props, extra)
    ELSE /\ simple_all_supported(c.extra.supported, extra)
         /\ simple_requirements_satisfied(c.extra.required, extra)

\* -------------------------------------------------- Manifest::is_supported
\* one catalog of self.catalogs.iter().any(..)
catalog_matches(c, r) ==
    /\ c.type_name = r.type_name
    /\ c.id = r.id
    /\ is_extra_supported(c, r.extra)

\* slip: the last entry of that name instead of the first
find_resource_last(m, resource) ==
    LET hits == {i \in DOMAIN m.resources : m.resources[i].name = resource}
    IN  IF hits = {} THEN None
        ELSE Some(m.resources[CHOOSE i \in hits : \A j \in hits : i >= j])

\* self.resources.iter().find(|res| &res.name == resource)
find_resource(m, resource) ==
    LET hits == {i \in DOMAIN m.resources : m.resources[i].name = resource}
    IN  IF hits = {} THEN None
        ELSE Some(m.resources[CHOOSE i \in hits : \A j \in hits : i <= j])

\* Option::or_else
or_else(a, b) == IF a.some THEN a ELSE b

\* slip: map_or(true, ..), the type check open by default
is_types_match_open(m, res, type_name) ==
    LET types == or_else(res.types, m.types)
    IN  IF types.some
        THEN \E i \in DOMAIN types.val : types.val[i] = type_name
        ELSE TRUE

is_types_match(m, res, type_name) ==
    LET types == or_else(res.types, m.types)
    IN  IF types.some
        THEN \E i \in DOMAIN types.val : types.val[i] = type_name
        ELSE FALSE

\* slip: map_or(false, ..), the id check closed by default
is_id_match_closed(m, res, id) ==
    LET prefixes == or_else(res.id_prefixes, m.id_prefixes)
    IN  IF prefixes.some
        THEN \E i \in DOMAIN prefixes.val : starts_with(id, prefixes.val[i])
        ELSE FALSE

is_id_match(m, res, id) ==
    LET prefixes == or_else(res.id_prefixes, m.id_prefixes)
    IN  IF prefixes.some
        THEN \E i \in DOMAIN prefixes.val : starts_with(id, prefixes.val[i])
        ELSE TRUE

\* slip: no special case, "catalog" is looked up among the resources
is_supported_no_special_case(m, r) ==
    LET found == find_resource(m, r.resource)
    IN  IF ~found.some THEN FALSE
        ELSE /\ is_types_match(m, found.val, r.type_name)
             /\ is_id_match(m, found.val, r.id)

is_supported(m, r) ==
    IF r.resource = S_catalog
    THEN \E i \in DOMAIN m.catalogs : catalog_matches(m.catalogs[i], r)
    ELSE LET found == find_resource(m, r.resource)
         IN  IF ~found.some THEN FALSE
             ELSE /\ is_types_match(m, found.val, r.type_name)
                  /\ is_id_match(m, found.val, r.id)

\* the two locals of is_supported, as they stand when it returns
is_supported_locals(m, r) ==
    IF r.resource = S_catalog THEN None
    ELSE LET found == find_resource(m, r.resource)
         IN  IF ~found.some THEN None
             ELSE Some([is_types_match |-> is_types_match(m, found.val, r.type_name),
                        is_id_match |-> is_id_match(m, found.val, r.id)])

\* ------------------------------------------------------------- JSON values
JNull == [k |-> "null"]

JBool(b) == [k |-> "bool", b |-> b]

JNum(n) == [k |-> "number", n |-> n]

JStr(s) == [k |-> "string", s |-> s]

JArr(items) == [k |-> "array", items |-> items]

\* members: the <<key, value>> entries in the order written; a document may
\* write a key twice
JObj(members) == [k |-> "object", members |-> members]

\* Result<T, D::Error>
Ok(v) == [ok |-> TRUE, val |-> v]

Err == [ok |-> FALSE]

\* ------------------------------------------------------------ semver::Version
DigitValue ==
    "0" :> 0 @@ "1" :> 1 @@ "2" :> 2 @@ "3" :> 3 @@ "4" :> 4 @@ "5" :> 5 @@ "6" :> 6
        @@ "7" :> 7 @@ "8" :> 8 @@ "9" :> 9

DigitChar == <<"0", "1", "2", "3", "4", "5", "6", "7", "8", "9">>

\* the characters of an identifier of a pre-release or of build metadata
IdentChars ==
    DOMAIN DigitValue
    \cup {"a", "b", "c", "d", "e", "f", "g", "h", "i", "j", "k", "l", "m", "n", "o", "p",
          "q", "r", "s", "t", "u", "v", "w", "x", "y", "z"}
    \cup {"A", "B", "C", "D", "E", "F", "G", "H", "I", "J", "K", "L", "M", "N", "O", "P",
          "Q", "R", "S", "T", "U", "V", "W", "X", "Y", "Z"}
    \cup {"-"}

Zeros(n) == [i \in 1..n |-> "0"]

\* the value of at most nine digits
RECURSIVE ParseNat(_)
ParseNat(p) ==
    IF p = <<>> THEN 0
    ELSE ParseNat(SubSeq(p, 1, Len(p) - 1)) * 10 + DigitValue[p[Len(p)]]

RECURSIVE NatToString(_)
NatToString(n) ==
    IF n < 10 THEN <<DigitChar[n + 1]>>
    ELSE NatToString(n \div 10) \o <<DigitChar[(n % 10) + 1]>>

\* u64::MAX = 18446744073709551615
U64_MAX == <<18, 446744073, 709551615>>

\* the value of at most 27 digits, in groups of nine
ParseGroups(p) ==
    LET padded == Zeros(27 - Len(p)) \o p
    IN  <<ParseNat(SubSeq(padded, 1, 9)), ParseNat(SubSeq(padded, 10, 18)),
          ParseNat(SubSeq(padded, 19, 27))>>

GroupsLeq(a, b) ==
    \/ a[1] < b[1]
    \/ a[1] = b[1] /\ a[2] < b[2]
    \/ a[1] = b[1] /\ a[2] = b[2] /\ a[3] <= b[3]

\* Display for u64
U64ToString(v) ==
    LET pad(n) == Zeros(9 - Len(NatToString(n))) \o NatToString(n)
        all == pad(v[1]) \o pad(v[2]) \o pad(v[3])
        significant == {i \in DOMAIN all : all[i] # "0"}
    IN  IF significant = {} THEN <<"0">>
        ELSE SubSeq(all, CHOOSE i \in significant : \A j \in significant : i <= j, Len(all))

\* major, minor, patch: digits, no leading zero, at most u64::MAX
IsNumericIdentifier(p) ==
    /\ Len(p) > 0
    /\ \A i \in DOMAIN p : p[i] \in DOMAIN DigitValue
    /\ (Len(p) > 1 => p[1] # "0")
    /\ Len(p) <= 20
    /\ GroupsLeq(ParseGroups(p), U64_MAX)

\* the last position of the identifier that starts at i
IdentifierEnd(s, i) ==
    CHOOSE j \in i..Len(s) :
        /\ j = Len(s) \/ s[j + 1] = "."
        /\ \A k \in i..j : s[k] # "."

\* dot-separated identifiers, none empty; in a pre-release an identifier of
\* digits only has no leading zero, in build metadata it may
IsIdentifiers(s, strict_numbers) ==
    /\ Len(s) > 0
    /\ \A i \in DOMAIN s : s[i] \in IdentChars \cup {"."}
    /\ s[1] # "."
    /\ s[Len(s)] # "."
    /\ \A i \in 1..(Len(s) - 1) : ~(s[i] = "." /\ s[i + 1] = ".")
    /\ strict_numbers =>
          \A i \in DOMAIN s :
              ((i = 1 \/ s[i - 1] = ".") /\ s[i] = "0") =>
                  LET j == IdentifierEnd(s, i)
                  IN  j = i \/ \E k \in i..j : s[k] \notin DOMAIN DigitValue

\* Version::parse: major.minor.patch, then -pre-release, then +build
Version_parse(s) ==
    LET pluses == {i \in DOMAIN s : s[i] = "+"}
        plus == IF pluses = {} THEN Len(s) + 1
                ELSE CHOOSE i \in pluses : \A j \in pluses : i <= j
        head == SubSeq(s, 1, plus - 1)
        build == SubSeq(s, plus + 1, Len(s))
        dashes == {i \in DOMAIN head : head[i] = "-"}
        dash == IF dashes = {} THEN Len(head) + 1
                ELSE CHOOSE i \in dashes : \A j \in dashes : i <= j
        core == SubSeq(head, 1, dash - 1)
        pre == SubSeq(head, dash + 1, Len(head))
        dots == {i \in DOMAIN core : core[i] = "."}
    IN  IF Cardinality(dots) # 2 THEN Err
        ELSE LET d1 == CHOOSE i \in dots : \A j \in dots : i <= j
                 d2 == CHOOSE i \in dots : \A j \in dots : i >= j
                 major == SubSeq(core, 1, d1 - 1)
                 minor == SubSeq(core, d1 + 1, d2 - 1)
                 patch == SubSeq(core, d2 + 1, Len(core))
             IN  IF /\ IsNumericIdentifier(major)
                    /\ IsNumericIdentifier(minor)
                    /\ IsNumericIdentifier(patch)
                    /\ (dashes # {} => IsIdentifiers(pre, TRUE))
                    /\ (pluses # {} => IsIdentifiers(build, FALSE))
                 THEN Ok([major |-> ParseGroups(major), minor |-> ParseGroups(minor),
                          patch |-> ParseGroups(patch), pre |-> pre, build |-> build])
                 ELSE Err

\* Display for Version
Version_to_string(v) ==
    U64ToString(v.major) \o <<".">> \o U64ToString(v.minor) \o <<".">>
        \o U64ToString(v.patch)
        \o (IF v.pre = <<>> THEN <<>> ELSE <<"-">> \o v.pre)
        \o (IF v.build = <<>> THEN <<>> ELSE <<"+">> \o v.build)

\* ------------------------------------------------------------------ Serialize
ser_String(s) == JStr(s)

ser_Vec_String(v) == JArr([i \in DOMAIN v |-> ser_String(v[i])])

ser_Option_String(o) == IF o.some THEN ser_String(o.val) ELSE JNull

ser_Option_Vec_String(o) == IF o.some THEN ser_Vec_String(o.val) ELSE JNull

ser_Version(v) == JStr(Version_to_string(v))

ser_ManifestResource(r) ==
    JObj(<<<<"name", ser_String(r.name)>>,
           <<"types", ser_Option_Vec_String(r.types)>>,
           <<"idPrefixes", ser_Option_Vec_String(r.id_prefixes)>>>>)

ser_ManifestExtraProp(e) ==
    JObj(<<<<"name", ser_String(e.name)>>,
           <<"isRequired", JBool(e.is_required)>>,
           <<"values", ser_Option_Vec_String(e.values)>>>>)

\* the entries an untagged ManifestExtra writes
ser_ManifestExtra(e) ==
    IF e.variant = "Full"
    THEN <<<<"extra",
              JArr([i \in DOMAIN e.props |-> ser_ManifestExtraProp(e.props[i])])>>>>
    ELSE <<<<"extraRequired", ser_Vec_String(e.required)>>,
           <<"extraSupported", ser_Vec_String(e.supported)>>>>

\* #[serde(flatten)] writes the entries of extra into the catalog's own map
ser_ManifestCatalog(c) ==
    JObj(<<<<"type", ser_String(c.type_name)>>,
           <<"id", ser_String(c.id)>>,
           <<"name", ser_Option_String(c.name)>>>>
         \o ser_ManifestExtra(c.extra))

ser_Manifest(m) ==
    JObj(<<<<"id", ser_String(m.id)>>,
           <<"version", ser_Version(m.version)>>,
           <<"name", ser_String(m.name)>>,
           <<"description", ser_Option_String(m.description)>>,
           <<"logo", ser_Option_String(m.logo)>>,
           <<"background", ser_Option_String(m.background)>>,
           <<"resources",
             JArr([i \in DOMAIN m.resources |-> ser_ManifestResource(m.resources[i])])>>,
           <<"types", ser_Option_Vec_String(m.types)>>,
           <<"idPrefixes", ser_Option_Vec_String(m.id_prefixes)>>,
           <<"catalogs",
             JArr([i \in DOMAIN m.catalogs |-> ser_ManifestCatalog(m.catalogs[i])])>>>>)

\* ---------------------------------------------------------------- Deserialize
\* what a struct's visitor holds for a key the map does not carry
Missing == [k |-> "missing"]

\* the keys an object writes
keys_of(members) == {members[i][1] : i \in DOMAIN members}

written_twice(members, key) ==
    \E i, j \in DOMAIN members : i < j /\ members[i][1] = key /\ members[j][1] = key

\* visit_map of a derived struct: a second entry for a field that is already
\* set is the error duplicate_field; entries of other keys are skipped
duplicate_field(members, known) == \E key \in known : written_twice(members, key)

\* the value a visitor holds for a key once the map is read
field(members, key) ==
    LET at == {i \in DOMAIN members : members[i][1] = key}
    IN  IF at = {} THEN Missing
        ELSE members[CHOOSE i \in at : \A j \in at : i <= j][2]

\* visit_seq: the fields of a struct in declaration order; an element the
\* array does not carry is missing
positional(items, total) ==
    [i \in 1..total |-> IF i <= Len(items) THEN items[i] ELSE Missing]

\* what the derived visitor of a struct accepts: a map that writes none of
\* the fields twice, or a sequence that carries every field up to the last
\* one without #[serde(default)] and no element beyond the last field
is_struct(j, known, required, total) ==
    \/ j.k = "object" /\ ~duplicate_field(j.members, known)
    \/ j.k = "array" /\ Len(j.items) >= required /\ Len(j.items) <= total

\* the elements of a sequence, or the error of one of them
collect(rs) ==
    IF \E i \in DOMAIN rs : ~rs[i].ok THEN Err
    ELSE Ok([i \in DOMAIN rs |-> rs[i].val])

\* Some of a decoded value
some_of(r) == IF r.ok THEN Ok(Some(r.val)) ELSE Err

\* a field without attributes: a missing key is an error, like any other shape
de_String(j) == IF j.k = "string" THEN Ok(j.s) ELSE Err

de_bool(j) == IF j.k = "bool" THEN Ok(j.b) ELSE Err

\* #[serde(default)] is_required: a missing key is false
de_bool_default(j) == IF j.k = "missing" THEN Ok(FALSE) ELSE de_bool(j)

de_Vec_String(j) ==
    IF j.k # "array" THEN Err
    ELSE collect([i \in DOMAIN j.items |-> de_String(j.items[i])])

\* #[serde(default)] required / supported: a missing key is the empty list
de_Vec_String_default(j) == IF j.k = "missing" THEN Ok(<<>>) ELSE de_Vec_String(j)

\* an Option field: a missing key and null are None
de_Option_String(j) ==
    IF j.k \in {"null", "missing"} THEN Ok(None) ELSE some_of(de_String(j))

de_Option_Vec_String(j) ==
    IF j.k \in {"null", "missing"} THEN Ok(None) ELSE some_of(de_Vec_String(j))

de_Version(j) == IF j.k = "string" THEN Version_parse(j.s) ELSE Err

\* slip: empty whitelists where the compact notation declares none
from_str_empty_lists(s) == Ok(ManifestResource(s, Some(<<>>), Some(<<>>)))

\* ManifestResource::from_str
from_str(s) == Ok(ManifestResource(s, None, None))

\* visit_map for an object, visit_seq (the fields in declaration order) for
\* an array
de_ManifestResource(j) ==
    IF ~is_struct(j, {"name", "types", "idPrefixes"}, 3, 3) THEN Err
    ELSE LET from == IF j.k = "object"
                     THEN <<field(j.members, "name"), field(j.members, "types"),
                            field(j.members, "idPrefixes")>>
                     ELSE positional(j.items, 3)
             name == de_String(from[1])
             types == de_Option_Vec_String(from[2])
             id_prefixes == de_Option_Vec_String(from[3])
         IN  IF name.ok /\ types.ok /\ id_prefixes.ok
             THEN Ok(ManifestResource(name.val, types.val, id_prefixes.val))
             ELSE Err

\* visit_str / visit_map of StringOrStruct; any other shape, a sequence
\* included, is refused
string_or_struct(j) ==
    CASE j.k = "string" -> Ok(from_str(j.s).val)
      [] j.k = "object" -> de_ManifestResource(j)
      [] OTHER -> Err

vec_manifest_resource(j) ==
    IF j.k # "array" THEN Err
    ELSE collect([i \in DOMAIN j.items |-> string_or_struct(j.items[i])])

de_ManifestExtraProp(j) ==
    IF ~is_struct(j, {"name", "isRequired", "values"}, 3, 3) THEN Err
    ELSE LET from == IF j.k = "object"
                     THEN <<field(j.members, "name"), field(j.members, "isRequired"),
                            field(j.members, "values")>>
                     ELSE positional(j.items, 3)
             name == de_String(from[1])
             is_required == de_bool_default(from[2])
             values == de_Option_Vec_String(from[3])
         IN  IF name.ok /\ is_required.ok /\ values.ok
             THEN Ok(ManifestExtraProp(name.val, is_required.val, values.val))
             ELSE Err

de_Vec_ManifestExtraProp(j) ==
    IF j.k # "array" THEN Err
    ELSE collect([i \in DOMAIN j.items |-> de_ManifestExtraProp(j.items[i])])

\* variant Full { #[serde(rename = "extra")] props }
de_Full(members) ==
    LET props == de_Vec_ManifestExtraProp(field(members, "extra"))
    IN  IF ~written_twice(members, "extra") /\ props.ok THEN Ok(Full(props.val))
        ELSE Err

\* variant Simple { extraRequired, extraSupported }, both #[serde(default)]
de_Simple(members) ==
    LET required == de_Vec_String_default(field(members, "extraRequired"))
        supported_keys == de_Vec_String_default(field(members, "extraSupported"))
    IN  IF /\ ~duplicate_field(members, {"extraRequired", "extraSupported"})
           /\ required.ok
           /\ supported_keys.ok
        THEN Ok(Simple(required.val, supported_keys.val))
        ELSE Err

\* slip: the variants declared in the other order
de_ManifestExtra_simple_first(members) ==
    LET simple == de_Simple(members)
    IN  IF simple.ok THEN simple ELSE de_Full(members)

\* #[serde(untagged)]: the entries are buffered, and the first variant, in
\* declaration order, that decodes them is the value
de_ManifestExtra(members) ==
    LET full == de_Full(members)
    IN  IF full.ok THEN full ELSE de_Simple(members)

\* #[serde(flatten)] hands extra the entries the catalog's own fields left
flatten_rest(members) ==
    LET other(m) == m[1] \notin {"type", "id", "name"}
    IN  SelectSeq(members, other)

\* a struct with a flattened field is decoded from a map only; its own
\* fields are written once at most
de_ManifestCatalog(j) ==
    IF j.k # "object" THEN Err
    ELSE IF duplicate_field(j.members, {"type", "id", "name"}) THEN Err
    ELSE LET type_name == de_String(field(j.members, "type"))
             id == de_String(field(j.members, "id"))
             name == de_Option_String(field(j.members, "name"))
             extra == de_ManifestExtra(flatten_rest(j.members))
         IN  IF type_name.ok /\ id.ok /\ name.ok /\ extra.ok
             THEN Ok(ManifestCatalog(type_name.val, id.val, name.val, extra.val))
             ELSE Err

\* #[serde(default)] catalogs: a missing key is the empty list
de_Vec_ManifestCatalog_default(j) ==
    CASE j.k = "missing" -> Ok(<<>>)
      [] j.k = "array" -> collect([i \in DOMAIN j.items |-> de_ManifestCatalog(j.items[i])])
      [] OTHER -> Err

\* #[serde(deserialize_with = "vec_manifest_resource")]: a missing key is an error
de_resources(j) == IF j.k = "missing" THEN Err ELSE vec_manifest_resource(j)

ManifestKeys ==
    <<"id", "version", "name", "description", "logo", "background", "resources",
      "types", "idPrefixes", "catalogs">>

de_Manifest(j) ==
    IF ~is_struct(j, Range(ManifestKeys), 9, 10) THEN Err
    ELSE LET from == IF j.k = "object"
                     THEN [i \in DOMAIN ManifestKeys |-> field(j.members, ManifestKeys[i])]
                     ELSE positional(j.items, 10)
             id == de_String(from[1])
             version == de_Version(from[2])
             name == de_String(from[3])
             description == de_Option_String(from[4])
             logo == de_Option_String(from[5])
             background == de_Option_String(from[6])
             resources == de_resources(from[7])
             types == de_Option_Vec_String(from[8])
             id_prefixes == de_Option_Vec_String(from[9])
             catalogs == de_Vec_ManifestCatalog_default(from[10])
         IN  IF /\ id.ok /\ version.ok /\ name.ok /\ description.ok /\ logo.ok
                /\ background.ok /\ resources.ok /\ types.ok /\ id_prefixes.ok
                /\ catalogs.ok
             THEN Ok(Manifest(id.val, version.val, name.val, description.val, logo.val,
                              background.val, resources.val, types.val,
                              id_prefixes.val, catalogs.val))
             ELSE Err

\* ------------------------------------------------------------------ inputs
V001 == Version(0, 0, 1)

\* a manifest around the fields the matcher reads
MatchManifest(resources, types, id_prefixes, catalogs) ==
    Manifest(S_id, V001, S_name, None, None, None, resources, types, id_prefixes,
             catalogs)

EmptyManifest == MatchManifest(<<>>, None, None, <<>>)

TopCatalog(extra) == ManifestCatalog(S_movie, S_top, None, extra)

LegacyExtra == Simple(<<S_genre>>, <<S_genre, S_year>>)

\* resource descriptors: every whitelist combination on "meta" and "stream"
ResourceTypes == {None, Some(<<>>), Some(<<S_movie>>)}

ResourcePrefixes == {None, Some(<<>>), Some(<<S_tt>>)}

Resources ==
    {ManifestResource(n, t, p) :
        n \in {S_meta, S_stream}, t \in ResourceTypes, p \in ResourcePrefixes}

ManifestTypes == {None, Some(<<>>), Some(<<S_series, S_movie>>)}

ManifestPrefixes == {None, Some(<<>>), Some(<<S_kp, S_tt>>), Some(<<S_empty>>)}

RequestExtras ==
    SeqsUpTo(({S_genre, S_year} \X {S_x, S_y}) \cup {<<S_other, S_x>>}, MaxExtra)

CatalogRequestExtras == SeqsUpTo({S_genre, S_year, S_other} \X {S_x}, MaxExtra)

\* extra declarations of a catalog, both notations
ExtraProps ==
    {ManifestExtraProp(n, b, v) :
        n \in {S_genre, S_year}, b \in BOOLEAN, v \in {None, Some(<<S_x>>)}}

ExtraSpecs ==
    {Full(ps) : ps \in SeqsUpTo(ExtraProps, MaxProps)}
        \cup {Simple(rq, su) : rq \in SeqsUpTo({S_genre, S_year}, MaxProps),
                               su \in SeqsUpTo({S_genre, S_year}, MaxProps)}

\* catalogs of the manifests the matcher is run on
MatchExtras ==
    {Full(<<ManifestExtraProp(S_genre, TRUE, None), ManifestExtraProp(S_year, FALSE, None)>>),
     Simple(<<>>, <<>>),
     LegacyExtra}

MatchCatalogs ==
    {ManifestCatalog(t, i, None, e) :
        t \in {S_movie, S_series}, i \in {S_top, S_new}, e \in MatchExtras}

\* what a manifest may declare next to its catalogs:
\* <<resources, types, id_prefixes>>
CatalogSides ==
    {<<(<<>>), None, None>>,
     <<(<<>>), Some(<<S_movie>>), Some(<<S_empty>>)>>,
     <<(<<ManifestResource(S_catalog, None, None)>>), None, None>>,
     <<(<<ManifestResource(S_catalog, None, None)>>), Some(<<>>), Some(<<>>)>>,
     <<(<<ManifestResource(S_catalog, Some(<<>>), Some(<<>>))>>), Some(<<S_movie>>), None>>,
     <<(<<ManifestResource(S_catalog, Some(<<S_movie, S_series>>), Some(<<S_empty>>))>>),
       Some(<<S_movie, S_series>>), Some(<<S_empty>>)>>}

\* ------------------------------------------------------------------- state
\* requests for a resource other than "catalog"
InitResource ==
    /\ pc = "ready"
    /\ \E rs \in SeqsUpTo(Resources, MaxResources), t \in ManifestTypes,
          p \in ManifestPrefixes, cs \in {<<>>, <<TopCatalog(LegacyExtra)>>} :
            manifest = MatchManifest(rs, t, p, cs)
    /\ \E res \in {S_meta, S_stream}, t \in {S_movie, S_series}, i \in {S_tt1, S_kp2} :
            request = ResourceRef(res, t, i, <<>>)
    /\ catalog = TopCatalog(LegacyExtra)
    /\ supported = FALSE
    /\ locals = None
    /\ wire = JNull
    /\ decoded = Err

\* requests for the resource "catalog"
InitCatalog ==
    /\ pc = "ready"
    /\ \E cs \in SeqsUpTo(MatchCatalogs, MaxCatalogs), side \in CatalogSides :
            manifest = MatchManifest(side[1], side[2], side[3], cs)
    /\ \E t \in {S_movie, S_series}, i \in {S_top, S_new}, e \in CatalogRequestExtras :
            request = ResourceRef(S_catalog, t, i, e)
    /\ catalog = TopCatalog(LegacyExtra)
    /\ supported = FALSE
    /\ locals = None
    /\ wire = JNull
    /\ decoded = Err

\* one catalog and the extra of a request for it
InitExtra ==
    /\ pc = "ready"
    /\ manifest = EmptyManifest
    /\ \E e \in ExtraSpecs : catalog = TopCatalog(e)
    /\ \E e \in RequestExtras : request = ResourceRef(S_catalog, S_movie, S_top, e)
    /\ supported = FALSE
    /\ locals = None
    /\ wire = JNull
    /\ decoded = Err

\* Manifest::is_supported(&manifest, &request)
IsSupported ==
    /\ pc = "ready"
    /\ supported' = is_supported(manifest, request)
    /\ locals' = is_supported_locals(manifest, request)
    /\ pc' = "done"
    /\ UNCHANGED <<manifest, request, catalog, wire, decoded>>

\* catalog.is_extra_supported(&request.extra)
IsExtraSupported ==
    /\ pc = "ready"
    /\ supported' = is_extra_supported(catalog, request.extra)
    /\ pc' = "done"
    /\ UNCHANGED <<manifest, request, catalog, locals, wire, decoded>>

NextSupported == IsSupported

NextExtra == IsExtraSupported

SpecResource == InitResource /\ [][NextSupported]_vars

SpecCatalog == InitCatalog /\ [][NextSupported]_vars

SpecExtra == InitExtra /\ [][NextExtra]_vars

\* ------------------------------------------------- inputs of the codec
S_0_0_1 == <<"0", ".", "0", ".", "1">>

ValidVersionTexts ==
    {S_0_0_1,
     <<"1", ".", "2", "0", ".", "3">>,
     <<"1", "0", ".", "0", ".", "0">>,
     <<"1", ".", "0", ".", "0", "-", "a", "l", "p", "h", "a">>,
     <<"1", ".", "0", ".", "0", "-", "a", "-", "b", ".", "0", ".", "0", "x">>,
     <<"1", ".", "0", ".", "0", "+", "0", "1", ".", "b", "-", "5">>,
     <<"1", ".", "0", ".", "0", "-", "r", "c", ".", "1", "+", "b", ".", "5">>,
     <<"4", "2", "9", "4", "9", "6", "7", "2", "9", "6", ".", "0", ".", "0">>,
     <<"0", ".", "0", ".">> \o U64ToString(U64_MAX)}

InvalidVersionTexts ==
    {<<>>,
     <<"1", ".", "2">>,
     <<"1", ".", "2", ".", "x">>,
     <<"1", ".", ".", "2">>,
     <<"0", "1", ".", "0", ".", "0">>,
     <<"1", ".", "2", ".", "3", ".", "4">>,
     <<"1", ".", "0", ".", "0", "-">>,
     <<"1", ".", "0", ".", "0", "+">>,
     <<"1", ".", "0", ".", "0", "-", "0", "1">>,
     <<"1", ".", "0", ".", "0", "-", "a", ".", ".", "b">>,
     <<"1", ".", "0", ".", "0", "+", "a", "+", "b">>,
     <<"1", ".", "0", ".", "0", "-", "a", "_">>,
     <<"1", "8", "4", "4", "6", "7", "4", "4", "0", "7", "3", "7", "0", "9", "5", "5", "1",
       "6", "1", "6", ".", "0", ".", "0">>,
     <<"0", ".", "9", "9", "9", "9", "9", "9", "9", "9", "9", "9", "9", "9", "9", "9", "9",
       "9", "9", "9", "9", "9", ".", "0">>,
     S_x}

\* versions to encode
Versions ==
    {V001, Version(1, 20, 3), Version(10, 0, 0),
     [Version(1, 0, 0) EXCEPT !.pre = <<"r", "c", ".", "1">>],
     [Version(1, 0, 0) EXCEPT !.build = <<"0", "1">>],
     [Version(2, 0, 0) EXCEPT !.pre = <<"a", "-", "b">>, !.build = <<"b", ".", "5">>],
     [Version(0, 0, 0) EXCEPT !.major = <<4, 294967296, 0>>, !.patch = U64_MAX]}

\* manifests to encode: resources and whitelists, catalog lists, one catalog
\* with every extra spec, the scalar fields
CodecManifests ==
    {MatchManifest(rs, t, t, <<>>) :
        rs \in SeqsUpTo(Resources, MaxResources), t \in ManifestTypes}
    \cup {MatchManifest(<<>>, None, None, cs) : cs \in SeqsUpTo(MatchCatalogs, MaxCatalogs)}
    \cup {MatchManifest(<<ManifestResource(S_catalog, None, None)>>, Some(<<S_movie>>), None,
                        <<ManifestCatalog(S_movie, S_top, n, e)>>) :
            n \in {None, Some(S_name)}, e \in ExtraSpecs}
    \cup {Manifest(S_id, v, S_name, d, l, b, <<>>, None, None, <<>>) :
            v \in Versions,
            d \in {None, Some(S_x)}, l \in {None, Some(S_y)}, b \in {None, Some(S_empty)}}

\* a document with the mandatory keys and the given further entries
Doc(version, resources, more) ==
    JObj(<<<<"id", JStr(S_id)>>, <<"version", version>>, <<"name", JStr(S_name)>>,
           <<"resources", resources>>>> \o more)

NoMore == <<<<"behaviorHints", JArr(<<>>)>>>>

JStrs(v) == JArr([i \in DOMAIN v |-> JStr(v[i])])

\* resource entries: compact, verbose, and the shapes that are neither
GoodResourceEntries ==
    {JStr(S_meta), JStr(S_stream),
     JObj(<<<<"name", JStr(S_meta)>>>>),
     JObj(<<<<"name", JStr(S_stream)>>, <<"types", JNull>>, <<"idPrefixes", JNull>>>>),
     JObj(<<<<"name", JStr(S_meta)>>, <<"types", JStrs(<<S_movie>>)>>,
            <<"idPrefixes", JStrs(<<S_tt>>)>>>>)}

BadResourceEntries ==
    {JNum(1), JNull, JArr(<<JStr(S_meta)>>), JArr(<<JStr(S_meta), JNull, JNull>>)}

\* an object that writes a field twice
RepeatedResourceEntries ==
    {JObj(<<<<"name", JStr(S_meta)>>, <<"name", JStr(S_stream)>>>>)}

ResourceEntries ==
    GoodResourceEntries \cup BadResourceEntries \cup RepeatedResourceEntries

\* values of a catalog's "extra" key
GoodExtraValues ==
    {JArr(<<>>),
     JArr(<<JObj(<<<<"name", JStr(S_genre)>>>>)>>),
     JArr(<<JObj(<<<<"name", JStr(S_genre)>>, <<"isRequired", JBool(TRUE)>>,
                   <<"values", JStrs(<<S_x, S_y>>)>>>>),
            JObj(<<<<"name", JStr(S_year)>>, <<"isRequired", JBool(FALSE)>>,
                   <<"values", JNull>>>>)>>),
     JArr(<<JArr(<<JStr(S_genre), JBool(TRUE), JNull>>)>>),
     JArr(<<JArr(<<JStr(S_genre), JBool(FALSE), JStrs(<<S_x>>)>>),
            JObj(<<<<"name", JStr(S_year)>>>>)>>)}

BadExtraValues ==
    {JNull,
     JStr(S_genre),
     JNum(1),
     JObj(<<<<"name", JStr(S_genre)>>>>),
     JArr(<<JStr(S_genre)>>),
     JArr(<<JObj(<<<<"isRequired", JBool(TRUE)>>>>)>>),
     JArr(<<JObj(<<<<"name", JStr(S_genre)>>, <<"isRequired", JStr(S_y)>>>>)>>),
     JArr(<<JObj(<<<<"name", JStr(S_genre)>>, <<"name", JStr(S_genre)>>>>)>>),
     JArr(<<JArr(<<JStr(S_genre)>>)>>),
     JArr(<<JArr(<<JStr(S_genre), JBool(TRUE)>>)>>),
     JArr(<<JArr(<<JStr(S_genre), JBool(TRUE), JNull, JNull>>)>>)}

\* the optional entries of a catalog object
CatalogKeyChoices ==
    {<<>>} \cup {<<<<"extra", v>>>> : v \in GoodExtraValues \cup BadExtraValues}

LegacyKeyChoices ==
    {<<>>,
     <<<<"extraRequired", JStrs(<<S_genre>>)>>>>,
     <<<<"extraSupported", JStrs(<<S_genre, S_year>>)>>>>,
     <<<<"extraRequired", JStrs(<<S_genre>>)>>, <<"extraSupported", JStrs(<<S_genre, S_year>>)>>>>,
     <<<<"extraRequired", JStrs(<<>>)>>, <<"extraSupported", JStrs(<<>>)>>>>}

\* entries that write a key twice: a field of the catalog, the modern key, a
\* legacy key beside the modern key and without it, a key that is no field
RepeatedKeyChoices ==
    {<<<<"type", JStr(S_movie)>>>>,
     <<<<"name", JStr(S_name)>>, <<"name", JNull>>>>,
     <<<<"extra", JArr(<<JObj(<<<<"name", JStr(S_genre)>>>>)>>)>>,
       <<"extra", JArr(<<JObj(<<<<"name", JStr(S_genre)>>>>)>>)>>>>,
     <<<<"extra", JArr(<<>>)>>, <<"extra", JNull>>,
       <<"extraSupported", JStrs(<<S_genre>>)>>>>,
     <<<<"extra", JArr(<<>>)>>, <<"extraSupported", JStrs(<<S_genre>>)>>,
       <<"extraSupported", JStrs(<<S_year>>)>>>>,
     <<<<"extraSupported", JStrs(<<S_genre>>)>>, <<"extraSupported", JStrs(<<S_genre>>)>>>>,
     <<<<"extraRequired", JStrs(<<>>)>>, <<"extraRequired", JNull>>>>,
     <<<<"behaviorHints", JNull>>, <<"behaviorHints", JNum(1)>>>>}

CatalogEntry(more) ==
    JObj(<<<<"type", JStr(S_movie)>>, <<"id", JStr(S_top)>>>> \o more)

CatalogObjects ==
    {CatalogEntry(a \o b) : a \in CatalogKeyChoices, b \in LegacyKeyChoices}
    \cup {CatalogEntry(r) : r \in RepeatedKeyChoices}

\* a document written as a sequence: the fields of Manifest in order
PositionalDoc(n) ==
    JArr(SubSeq(<<JStr(S_id), JStr(S_0_0_1), JStr(S_name), JNull, JNull, JNull,
                  JArr(<<JStr(S_meta)>>), JNull, JStrs(<<S_tt>>),
                  JArr(<<CatalogEntry(<<>>)>>),
                  JNull>>, 1, n))

\* documents that write a key of the manifest twice, or a key that is no field
RepeatedKeyDocs ==
    {Doc(JStr(S_0_0_1), JArr(<<JStr(S_meta)>>), more) :
        more \in {<<<<"id", JStr(S_x)>>>>,
                  <<<<"resources", JArr(<<>>)>>>>,
                  <<<<"version", JStr(S_0_0_1)>>>>,
                  <<<<"types", JNull>>, <<"types", JStrs(<<S_movie>>)>>>>,
                  <<<<"catalogs", JArr(<<>>)>>, <<"catalogs", JArr(<<>>)>>>>,
                  <<<<"behaviorHints", JNull>>, <<"behaviorHints", JNum(1)>>>>}}

\* documents to decode
Docs ==
    {PositionalDoc(n) : n \in 8..11} \cup RepeatedKeyDocs \cup
    {Doc(JStr(S_0_0_1), JArr(es), NoMore) : es \in SeqsUpTo(ResourceEntries, MaxResources)}
    \cup {Doc(v, JArr(<<JStr(S_meta)>>), NoMore) :
            v \in {JStr(t) : t \in ValidVersionTexts \cup InvalidVersionTexts}
                    \cup {JNum(1), JNull}}
    \cup {Doc(JStr(S_0_0_1), JArr(<<>>), <<<<"catalogs", JArr(cs)>>>>) :
            cs \in SeqsUpTo(CatalogObjects, 1)}
    \cup {Doc(JStr(S_0_0_1), JArr(<<>>), <<<<"catalogs", JArr(<<c1, c2>>)>>>>) :
            c1 \in {CatalogEntry(<<>>)}, c2 \in CatalogObjects}
    \cup {Doc(JStr(S_0_0_1), JArr(<<>>), <<<<"types", JStrs(<<S_movie>>)>>>>)}

\* ------------------------------------------------------- state of the codec
InitCodec ==
    /\ \/ /\ pc = "value"
          /\ manifest \in CodecManifests
          /\ wire = JNull
       \/ /\ pc = "wire"
          /\ manifest = EmptyManifest
          /\ wire \in Docs
    /\ request = ResourceRef(S_meta, S_movie, S_tt1, <<>>)
    /\ catalog = TopCatalog(LegacyExtra)
    /\ supported = FALSE
    /\ locals = None
    /\ decoded = Err

\* Serialize for Manifest
Serialize ==
    /\ pc = "value"
    /\ wire' = ser_Manifest(manifest)
    /\ pc' = "encoded"
    /\ UNCHANGED <<manifest, request, catalog, supported, locals, decoded>>

\* Deserialize for Manifest, of a received document or of an encoded manifest
Deserialize ==
    /\ pc \in {"wire", "encoded"}
    /\ decoded' = de_Manifest(wire)
    /\ pc' = IF pc = "encoded" THEN "restored" ELSE "decoded"
    /\ UNCHANGED <<manifest, request, catalog, supported, locals, wire>>

NextCodec == Serialize \/ Deserialize

SpecCodec == InitCodec /\ [][NextCodec]_vars

\* ------------------------------------------------------------- properties
Done == pc = "done"

\* the keys a request's extra carries
ExtraKeys(extra) == {extra[i][1] : i \in DOMAIN extra}

\* the request names a declared resource
Declared == \E i \in DOMAIN manifest.resources : manifest.resources[i].name = request.resource

\* the first entry, in list order, of the requested name
Located ==
    manifest.resources[
        CHOOSE i \in DOMAIN manifest.resources :
            /\ manifest.resources[i].name = request.resource
            /\ \A j \in 1..(i - 1) : manifest.resources[j].name # request.resource]

EffectiveTypes == IF Located.types.some THEN Located.types ELSE manifest.types

EffectivePrefixes ==
    IF Located.id_prefixes.some THEN Located.id_prefixes ELSE manifest.id_prefixes

TypeCheck == EffectiveTypes.some /\ request.type_name \in Range(EffectiveTypes.val)

IdCheck ==
    EffectivePrefixes.some =>
        \E p \in Range(EffectivePrefixes.val) : starts_with(request.id, p)

\* C1: a "catalog" request is supported iff some catalog of the manifest has
\* the requested type and id and supports the requested extra; resources,
\* types and id_prefixes of the manifest play no part, and a manifest without
\* catalogs supports no catalog request.
C1_CatalogSpecialCase ==
    (Done /\ request.resource = S_catalog) =>
        /\ supported =
              (\E c \in Range(manifest.catalogs) :
                  /\ c.type_name = request.type_name
                  /\ c.id = request.id
                  /\ is_extra_supported(c, request.extra))
        /\ supported =
              is_supported(MatchManifest(<<>>, None, None, manifest.catalogs), request)
        /\ (manifest.catalogs = <<>> => ~supported)

C1_Witness ==
    /\ Done
    /\ request.resource = S_catalog
    /\ Len(manifest.catalogs) = 2
    /\ manifest.resources # <<>>
    /\ manifest.types = Some(<<>>)
    /\ request.extra # <<>>
    /\ supported

\* C2: the type check is closed by default: the whitelist is the resource's
\* types when present, else the manifest's; with neither the request is not
\* supported, otherwise the check passes iff the requested type is listed.
C2_TypeClosedByDefault ==
    (Done /\ request.resource # S_catalog /\ Declared) =>
        /\ locals.some
        /\ locals.val.is_types_match = TypeCheck
        /\ (~EffectiveTypes.some => ~supported)
        /\ (Located.types = Some(<<>>) => ~supported)
        /\ (supported => request.type_name \in Range(EffectiveTypes.val))

C2_Witness ==
    /\ Done
    /\ request.resource # S_catalog
    /\ Declared
    /\ Located.types = None
    /\ manifest.types = None
    /\ locals.val.is_id_match
    /\ ~supported

\* C3: the id check is open by default: the whitelist is the resource's
\* id_prefixes when present, else the manifest's; with neither every id
\* passes, otherwise the id passes iff it starts with a listed prefix.
C3_IdOpenByDefault ==
    (Done /\ request.resource # S_catalog /\ Declared) =>
        /\ locals.some
        /\ locals.val.is_id_match = IdCheck
        /\ (~EffectivePrefixes.some => locals.val.is_id_match)
        /\ (EffectivePrefixes = Some(<<>>) => ~supported)
        /\ (supported /\ EffectivePrefixes.some =>
                \E p \in Range(EffectivePrefixes.val) : starts_with(request.id, p))

C3_Witness ==
    /\ Done
    /\ request.resource # S_catalog
    /\ Declared
    /\ Located.id_prefixes = None
    /\ manifest.id_prefixes = None
    /\ request.id = S_kp2
    /\ supported

\* C4: a request for an undeclared resource is not supported; for a declared
\* one the answer is the type check and the id check of the first entry of
\* that name; the answer is always a boolean.
C4_GeneralResourceCase ==
    (Done /\ request.resource # S_catalog) =>
        /\ supported \in BOOLEAN
        /\ (~Declared => ~supported)
        /\ (Declared => supported = (TypeCheck /\ IdCheck))

C4_Witness ==
    /\ Done
    /\ request.resource # S_catalog
    /\ Len(manifest.resources) = 2
    /\ manifest.resources[1].name = request.resource
    /\ manifest.resources[2].name = request.resource
    /\ manifest.resources[1].types = Some(<<S_movie>>)
    /\ manifest.resources[2].types = Some(<<>>)
    /\ supported

\* C5: with a Full extra spec the request is accepted iff every requested
\* key names a declared prop and every required prop is among the requested
\* keys; the values lists of the props play no part.
C5_FullExtra ==
    (Done /\ catalog.extra.variant = "Full") =>
        LET props == Range(catalog.extra.props)
            keys == ExtraKeys(request.extra)
            bare == [i \in DOMAIN catalog.extra.props |->
                        [catalog.extra.props[i] EXCEPT !.values = None]]
        IN  /\ supported =
                  (/\ keys \subseteq {p.name : p \in props}
                   /\ {p.name : p \in {q \in props : q.is_required}} \subseteq keys)
            /\ supported = is_extra_supported(TopCatalog(Full(bare)), request.extra)

C5_Witness ==
    /\ Done
    /\ catalog.extra.variant = "Full"
    /\ \E i \in DOMAIN catalog.extra.props :
          /\ catalog.extra.props[i].is_required
          /\ catalog.extra.props[i].values # None
          /\ catalog.extra.props[i].name \notin ExtraKeys(request.extra)
    /\ request.extra # <<>>
    /\ ExtraKeys(request.extra) \subseteq {p.name : p \in Range(catalog.extra.props)}
    /\ ~supported

\* C6: with a Simple extra spec the request is accepted iff every requested
\* key is in supported and every element of required is among the requested
\* keys; so an empty request is accepted iff required is empty, and a required
\* key missing from supported is never satisfied.
C6_SimpleExtra ==
    (Done /\ catalog.extra.variant = "Simple") =>
        LET keys == ExtraKeys(request.extra)
            required == Range(catalog.extra.required)
            supported_keys == Range(catalog.extra.supported)
        IN  /\ supported = (keys \subseteq supported_keys /\ required \subseteq keys)
            /\ (request.extra = <<>> => supported = (catalog.extra.required = <<>>))
            /\ (~(required \subseteq supported_keys) => ~supported)

C6_Witness ==
    /\ Done
    /\ catalog.extra.variant = "Simple"
    /\ catalog.extra.required = <<S_genre>>
    /\ catalog.extra.supported = <<S_year>>
    /\ ExtraKeys(request.extra) = {S_genre}
    /\ ~supported

\* C7: decoding the encoding of a manifest gives the manifest back, each
\* catalog keeping its extra notation (Full or Simple).
C7_RoundTrip ==
    (pc = "restored") =>
        /\ decoded.ok
        /\ decoded.val = manifest
        /\ \A i \in DOMAIN manifest.catalogs :
              decoded.val.catalogs[i].extra.variant = manifest.catalogs[i].extra.variant

C7_Witness ==
    /\ pc = "restored"
    /\ Len(manifest.catalogs) = 2
    /\ manifest.catalogs[1].extra.variant = "Full"
    /\ manifest.catalogs[2].extra = Simple(<<>>, <<>>)
    /\ decoded = Ok(manifest)

\* the catalog objects of the received document
WireCatalogs ==
    IF field(wire.members, "catalogs").k = "array"
    THEN field(wire.members, "catalogs").items
    ELSE <<>>

StringsOf(j) == [i \in DOMAIN j.items |-> j.items[i].s]

\* C8: a catalog object carrying the key "extra" decodes to Full with that
\* property list; one without it decodes to Simple with extraRequired and
\* extraSupported, each empty when absent; one with none of the three keys
\* decodes, without error, to Simple with two empty lists; there is no other
\* fallback.
C8_VariantSelection ==
    (pc = "decoded" /\ wire.k = "object") =>
        /\ ((/\ ~duplicate_field(wire.members, Range(ManifestKeys))
             /\ WireCatalogs # <<>>
             /\ \A i \in DOMAIN WireCatalogs :
                   /\ Len(WireCatalogs[i].members) = 2
                   /\ keys_of(WireCatalogs[i].members) = {"type", "id"})
              => /\ decoded.ok
                 /\ \A i \in DOMAIN WireCatalogs :
                       decoded.val.catalogs[i].extra = Simple(<<>>, <<>>))
        /\ decoded.ok =>
              \A i \in DOMAIN WireCatalogs :
                  LET f == WireCatalogs[i].members
                      e == decoded.val.catalogs[i].extra
                  IN  /\ ("extra" \in keys_of(f)) =>
                            /\ e.variant = "Full"
                            /\ Len(e.props) = Len(field(f, "extra").items)
                      /\ ("extra" \notin keys_of(f)) =>
                            /\ e.variant = "Simple"
                            /\ e.required =
                                  IF "extraRequired" \in keys_of(f)
                                  THEN StringsOf(field(f, "extraRequired")) ELSE <<>>
                            /\ e.supported =
                                  IF "extraSupported" \in keys_of(f)
                                  THEN StringsOf(field(f, "extraSupported")) ELSE <<>>

\* the verbose notation of a resource entry
Verbose(entry) ==
    IF entry.k = "string" THEN JObj(<<<<"name", JStr(entry.s)>>>>) ELSE entry

VerboseDoc(doc) ==
    JObj([n \in DOMAIN doc.members |->
            IF doc.members[n][1] = "resources" /\ doc.members[n][2].k = "array"
            THEN <<"resources",
                   JArr([i \in DOMAIN doc.members[n][2].items |->
                            Verbose(doc.members[n][2].items[i])])>>
            ELSE doc.members[n]])

WireResources == field(wire.members, "resources").items

\* the document writes a field of the manifest twice
RepeatedManifestKey == duplicate_field(wire.members, Range(ManifestKeys))

\* C9: the entry "s" decodes to the resource {"name": s} decodes to: name s,
\* no types, no id_prefixes; a string entry never fails; a list mixing both
\* notations decodes in order, and to the manifest its all-verbose form
\* decodes to, so that the matcher answers alike.
C9_CompactVerbose ==
    (pc = "decoded" /\ wire.k = "object") =>
        /\ decoded = de_Manifest(VerboseDoc(wire))
        /\ (/\ field(wire.members, "version") = JStr(S_0_0_1)
            /\ ~RepeatedManifestKey
            /\ WireCatalogs = <<>>
            /\ \A i \in DOMAIN WireResources : WireResources[i].k = "string")
              => decoded.ok
        /\ decoded.ok =>
              /\ Len(decoded.val.resources) = Len(WireResources)
              /\ \A i \in DOMAIN WireResources :
                    /\ WireResources[i].k = "string" =>
                          /\ decoded.val.resources[i]
                                = ManifestResource(WireResources[i].s, None, None)
                          /\ string_or_struct(Verbose(WireResources[i]))
                                = Ok(decoded.val.resources[i])
                    /\ WireResources[i].k = "object" =>
                          decoded.val.resources[i].name
                              = field(WireResources[i].members, "name").s
              /\ \A res \in {S_meta, S_stream}, id \in {S_tt1, S_kp2} :
                    is_supported(decoded.val, ResourceRef(res, S_movie, id, <<>>))
                        = is_supported(de_Manifest(VerboseDoc(wire)).val,
                                       ResourceRef(res, S_movie, id, <<>>))

C9_Witness ==
    /\ pc = "decoded"
    /\ wire.k = "object"
    /\ decoded.ok
    /\ Len(WireResources) = 2
    /\ WireResources[1] = JStr(S_stream)
    /\ WireResources[2].k = "object"
    /\ decoded.val.resources[1] = ManifestResource(S_stream, None, None)
    /\ decoded.val.resources[2].types = Some(<<S_movie>>)

IsStringsOrNull(j) ==
    \/ j.k = "null"
    \/ j.k = "array" /\ \A i \in DOMAIN j.items : j.items[i].k = "string"

\* a sequence of properties, each written as an object, no field twice, or
\* as the sequence of its three fields
IsPropertyList(j) ==
    /\ j.k = "array"
    /\ \A i \in DOMAIN j.items :
          \/ /\ j.items[i].k = "object"
             /\ ~duplicate_field(j.items[i].members, {"name", "isRequired", "values"})
             /\ field(j.items[i].members, "name").k = "string"
             /\ field(j.items[i].members, "isRequired").k \in {"bool", "missing"}
             /\ \/ field(j.items[i].members, "values").k = "missing"
                \/ IsStringsOrNull(field(j.items[i].members, "values"))
          \/ /\ j.items[i].k = "array"
             /\ Len(j.items[i].items) = 3
             /\ j.items[i].items[1].k = "string"
             /\ j.items[i].items[2].k = "bool"
             /\ IsStringsOrNull(j.items[i].items[3])

\* a catalog writes "extra", and not once with a sequence of properties
MalformedExtra ==
    \E i \in DOMAIN WireCatalogs :
        /\ "extra" \in keys_of(WireCatalogs[i].members)
        /\ \/ written_twice(WireCatalogs[i].members, "extra")
           \/ ~IsPropertyList(field(WireCatalogs[i].members, "extra"))

\* a field of the manifest, of a resource or of a catalog is written twice
RepeatedKey ==
    \/ RepeatedManifestKey
    \/ \E i \in DOMAIN WireResources : WireResources[i] \in RepeatedResourceEntries
    \/ \E i \in DOMAIN WireCatalogs :
          duplicate_field(WireCatalogs[i].members,
                          {"type", "id", "name", "extraRequired", "extraSupported"})

\* C10: decoding fails when the version text is no semantic version or a
\* resource entry is neither a string nor an object; a field that is present
\* but malformed is never replaced by a default (a catalog whose "extra" is
\* no sequence of property objects does not decode); the absence of
\* extraRequired, extraSupported, catalogs or isRequired is no error.
C10_MalformedIsAnError ==
    (pc = "decoded" /\ wire.k = "object") =>
        /\ (field(wire.members, "version").k # "string" => ~decoded.ok)
        /\ (field(wire.members, "version").k = "string"
                /\ field(wire.members, "version").s \in InvalidVersionTexts => ~decoded.ok)
        /\ ((\E i \in DOMAIN WireResources : WireResources[i].k \notin {"string", "object"})
                => ~decoded.ok)
        /\ (MalformedExtra => ~decoded.ok)
        /\ (/\ field(wire.members, "version").k = "string"
            /\ field(wire.members, "version").s \in ValidVersionTexts
            /\ \A i \in DOMAIN WireResources :
                  WireResources[i] \in GoodResourceEntries \cup RepeatedResourceEntries
            /\ ~MalformedExtra
            /\ ~RepeatedKey)
              => decoded.ok

====
